---- MODULE Spec2Model ----
(***************************************************************************)
(* Forward-propagation layers of core/layers.py (show-attend-and-tell).    *)
(*                                                                         *)
(* A tensor is a record [shape, data]: shape is the sequence of its        *)
(* dimensions and data its elements in row-major order, as the tensor      *)
(* library stores them.  A float32 value v is held as the integer          *)
(* round(v * Scale) (fixed point); a boolean tensor holds BOOLEANs and an  *)
(* index tensor holds the plain indices.  An operation the tensor library  *)
(* rejects (mismatched shapes) yields ShapeError, and every operation      *)
(* given ShapeError yields ShapeError, as the raised exception would       *)
(* abort the caller.                                                       *)
(***************************************************************************)
EXTENDS Integers, Sequences, FiniteSets

VARIABLES fn, args, ret, rng, graph, pinned

vars == <<fn, args, ret, rng, graph, pinned>>

(***************************************************************************)
(* float32 arithmetic, in fixed point                                      *)
(***************************************************************************)

\* One unit: the fixed-point image of 1.0.
Scale == 1000

\* round(ln 2 * Scale)
Ln2 == 693

Abs(x) == IF x < 0 THEN -x ELSE x

Max2(a, b) == IF a >= b THEN a ELSE b

\* Rounded quotient a / b for b > 0.
RDiv(a, b) == (2 * a + b) \div (2 * b)

\* Product of two fixed-point values.
FMul(a, b) == RDiv(a * b, Scale)

FAdd(a, b) == a + b

\* round(e^(-q) * Scale * Scale) for q = 0..14; e^(-q) is 0 beyond.
ExpNegTable ==
    << 1000000, 367879, 135335, 49787, 18316, 6738, 2479, 912, 335, 123,
       45, 17, 6, 2, 1 >>

RECURSIVE ExpFracTerms(_, _, _)
\* Sum of the terms k..8 of the series of e^(-r/Scale), at scale Scale^2;
\* term is the k-th term's magnitude.
ExpFracTerms(r, k, term) ==
    IF k > 8 \/ term = 0 THEN 0
    ELSE (IF k % 2 = 0 THEN term ELSE -term)
         + ExpFracTerms(r, k + 1, (term * r) \div (Scale * (k + 1)))

\* e^x for x <= 0.
ExpNeg(x) ==
    LET a == -x
        q == a \div Scale
        r == a % Scale
    IN  IF q + 1 > Len(ExpNegTable) THEN 0
        ELSE RDiv(ExpNegTable[q + 1] * RDiv(ExpFracTerms(r, 0, Scale * Scale), Scale),
                  Scale * Scale)

RECURSIVE Ln(_)
\* ln z for z >= 1.0: halve down to [1, 2), then 2 * atanh((z-1)/(z+1)).
Ln(z) ==
    IF z >= 2 * Scale THEN Ln2 + Ln(RDiv(z, 2))
    ELSE LET t  == RDiv((z - Scale) * Scale, z + Scale)
             t2 == FMul(t, t)
             t3 == FMul(t2, t)
             t5 == FMul(t3, t2)
             t7 == FMul(t5, t2)
         IN  2 * (t + RDiv(t3, 3) + RDiv(t5, 5) + RDiv(t7, 7))

Relu(x) == IF x > 0 THEN x ELSE 0

Sigmoid(x) ==
    IF x >= 0 THEN RDiv(Scale * Scale, Scale + ExpNeg(-x))
    ELSE RDiv(ExpNeg(x) * Scale, Scale + ExpNeg(x))

Tanh(x) ==
    LET e == ExpNeg(-2 * Abs(x))
        m == RDiv((Scale - e) * Scale, Scale + e)
    IN  IF x >= 0 THEN m ELSE -m

(***************************************************************************)
(* Tensors and the tensor-library operations the layers call               *)
(***************************************************************************)

\* A function on 1..n as the stored sequence of its values.
Stored(f) == f \o << >>

Tensor(shape, data) == [shape |-> Stored(shape), data |-> Stored(data)]

\* The outcome of an operation the library rejects.
ShapeError == [shape |-> << -1 >>, data |-> << >>]

IsErr(t) == t.shape = << -1 >>

Rank(t) == Len(t.shape)

RECURSIVE ProdFrom(_, _)
\* s[i] * s[i+1] * ... * s[Len(s)]
ProdFrom(s, i) == IF i > Len(s) THEN 1 ELSE s[i] * ProdFrom(s, i + 1)

NumElems(shape) == ProdFrom(shape, 1)

\* Row-major stride of dimension i.
Stride(shape, i) == ProdFrom(shape, i + 1)

\* 0-based coordinate along dimension i of the element at 0-based offset k.
Coord(k, shape, i) == (k \div Stride(shape, i)) % shape[i]

RECURSIVE SumTo(_, _)
\* f[1] + ... + f[n]
SumTo(f, n) == IF n = 0 THEN 0 ELSE f[n] + SumTo(f, n - 1)

RECURSIVE MaxTo(_, _)
MaxTo(f, n) == IF n = 1 THEN f[1] ELSE Max2(f[n], MaxTo(f, n - 1))

\* Element [i, j] of a matrix, element [i, j, k] of a rank-3 tensor (1-based).
At2(t, i, j) == t.data[(i - 1) * t.shape[2] + j]

At3(t, i, j, k) == t.data[((i - 1) * t.shape[2] + (j - 1)) * t.shape[3] + k]

\* tf.matmul: rank-2 operands whose inner dimensions agree.
MatMul(A, B) ==
    IF IsErr(A) \/ IsErr(B) THEN ShapeError
    ELSE IF Rank(A) # 2 \/ Rank(B) # 2 THEN ShapeError
    ELSE IF A.shape[2] # B.shape[1] THEN ShapeError
    ELSE LET n == A.shape[1]
             k == A.shape[2]
             m == B.shape[2]
         IN  Tensor(<< n, m >>,
                    [e \in 1..(n * m) |->
                        LET i == ((e - 1) \div m) + 1
                            j == ((e - 1) % m) + 1
                        IN  SumTo([x \in 1..k |-> FMul(At2(A, i, x), At2(B, x, j))], k)])

\* A shape padded on the left with 1s to rank r (broadcasting).
PadShape(s, r) ==
    Stored([i \in 1..r |-> IF i <= r - Len(s) THEN 1 ELSE s[i - (r - Len(s))]])

\* 1-based offset, in an operand of padded shape p, of the element that
\* broadcasts to 0-based offset k of the result of shape out.
BIndex(k, out, p) ==
    1 + SumTo([i \in 1..Len(out) |->
                  IF p[i] = 1 THEN 0 ELSE Coord(k, out, i) * Stride(p, i)],
              Len(out))

\* The elementwise binary operations: "add" is +, "mul" is *.
Binary(op, a, b) == IF op = "add" THEN FAdd(a, b) ELSE FMul(a, b)

\* An elementwise binary operation with broadcasting (+ and * of tensors).
Broadcast(op, A, B) ==
    IF IsErr(A) \/ IsErr(B) THEN ShapeError
    ELSE LET r  == Max2(Rank(A), Rank(B))
             pa == PadShape(A.shape, r)
             pb == PadShape(B.shape, r)
         IN  IF \E i \in 1..r : pa[i] # pb[i] /\ pa[i] # 1 /\ pb[i] # 1
             THEN ShapeError
             ELSE LET out == Stored([i \in 1..r |-> IF pa[i] = 1 THEN pb[i] ELSE pa[i]])
                  IN  Tensor(out,
                             [e \in 1..NumElems(out) |->
                                 Binary(op, A.data[BIndex(e - 1, out, pa)],
                                        B.data[BIndex(e - 1, out, pb)])])

Add(A, B) == Broadcast("add", A, B)

Mul(A, B) == Broadcast("mul", A, B)

\* The elementwise activations.
Unary(op, x) ==
    CASE op = "relu" -> Relu(x)
      [] op = "sigmoid" -> Sigmoid(x)
      [] op = "tanh" -> Tanh(x)

\* An elementwise unary operation (tf.nn.relu, tf.nn.tanh, tf.nn.sigmoid).
Map(op, A) ==
    IF IsErr(A) THEN ShapeError
    ELSE Tensor(A.shape, [e \in 1..Len(A.data) |-> Unary(op, A.data[e])])

\* tf.reshape(A, shape) where exactly shape[1] is -1 (the inferred one).
Reshape(A, shape) ==
    IF IsErr(A) THEN ShapeError
    ELSE LET rest == ProdFrom(shape, 2)
         IN  IF rest = 0 \/ Len(A.data) % rest # 0 THEN ShapeError
             ELSE Tensor([i \in 1..Len(shape) |->
                             IF i = 1 THEN Len(A.data) \div rest ELSE shape[i]],
                         A.data)

\* tf.expand_dims(A, axis), axis 0-based.
ExpandDims(A, axis) ==
    IF IsErr(A) THEN ShapeError
    ELSE Tensor([i \in 1..(Rank(A) + 1) |->
                    IF i <= axis THEN A.shape[i]
                    ELSE IF i = axis + 1 THEN 1 ELSE A.shape[i - 1]],
                A.data)

\* tf.reduce_sum(A, axis), axis 0-based: that dimension is summed away.
ReduceSum(A, axis) ==
    IF IsErr(A) THEN ShapeError
    ELSE LET d   == axis + 1
             out == Stored([i \in 1..(Rank(A) - 1) |->
                               IF i < d THEN A.shape[i] ELSE A.shape[i + 1]])
         IN  Tensor(out,
                    [e \in 1..NumElems(out) |->
                        LET base == SumTo([i \in 1..Len(out) |->
                                              Coord(e - 1, out, i)
                                              * Stride(A.shape, IF i < d THEN i ELSE i + 1)],
                                          Len(out))
                        IN  SumTo([x \in 1..A.shape[d] |->
                                      A.data[base + (x - 1) * Stride(A.shape, d) + 1]],
                                  A.shape[d])])

\* tf.reduce_sum(A): every element, to a scalar.
ReduceSumAll(A) ==
    IF IsErr(A) THEN ShapeError
    ELSE Tensor(<< >>, << SumTo(A.data, Len(A.data)) >>)

\* Row i of a matrix, as a sequence.
Row(A, i) == Stored([j \in 1..A.shape[2] |-> At2(A, i, j)])

\* e^(x - max) of each entry of a row: what softmax normalises.
RowExp(row) == Stored([j \in 1..Len(row) |-> ExpNeg(row[j] - MaxTo(row, Len(row)))])

\* tf.nn.softmax: normalised over the last dimension, that is over each run
\* of shape[Rank] consecutive elements.
Softmax(A) ==
    IF IsErr(A) THEN ShapeError
    ELSE IF Rank(A) < 1 THEN ShapeError
    ELSE LET c == A.shape[Rank(A)]
         IN  Tensor(A.shape,
                    [e \in 1..Len(A.data) |->
                        LET i == (e - 1) \div c
                            j == ((e - 1) % c) + 1
                            w == RowExp(SubSeq(A.data, i * c + 1, i * c + c))
                        IN  RDiv(w[j] * Scale, SumTo(w, Len(w)))])

\* tf.split(1, 4, A): dimension 1 (the columns of a matrix) cut into 4 equal
\* blocks; A has rank >= 2 and shape[2] divisible by 4.
Split4(A) ==
    IF IsErr(A) THEN << ShapeError, ShapeError, ShapeError, ShapeError >>
    ELSE IF Rank(A) < 2 THEN << ShapeError, ShapeError, ShapeError, ShapeError >>
    ELSE IF A.shape[2] % 4 # 0 THEN << ShapeError, ShapeError, ShapeError, ShapeError >>
    ELSE LET h   == A.shape[2] \div 4
             out == Stored([i \in 1..Rank(A) |-> IF i = 2 THEN h ELSE A.shape[i]])
         IN  [p \in 1..4 |->
                 Tensor(out,
                        [e \in 1..NumElems(out) |->
                            A.data[1 + SumTo([i \in 1..Rank(A) |->
                                                 (Coord(e - 1, out, i)
                                                  + (IF i = 2 THEN (p - 1) * h ELSE 0))
                                                 * Stride(A.shape, i)],
                                             Rank(A))]])]

\* tf.nn.embedding_lookup(W, ids): a gather along the first dimension of W.
\* For every index (0-based) the slice W[index, ...] is copied, so the result
\* has shape ids.shape followed by W.shape[2..]; W may have any rank >= 1.
EmbeddingLookup(W, ids) ==
    IF IsErr(W) \/ IsErr(ids) THEN ShapeError
    ELSE IF Rank(W) < 1 THEN ShapeError
    ELSE IF \E e \in 1..Len(ids.data) : ids.data[e] < 0 \/ ids.data[e] >= W.shape[1]
    THEN ShapeError
    ELSE LET m == ProdFrom(W.shape, 2)
         IN  Tensor(ids.shape \o SubSeq(W.shape, 2, Len(W.shape)),
                    [e \in 1..(Len(ids.data) * m) |->
                        W.data[ids.data[((e - 1) \div m) + 1] * m + ((e - 1) % m) + 1]])

\* tf.one_hot(y, V, on_value=1): integer 1 at column y[i] (0-based), 0 elsewhere;
\* an index outside [0, V) gives a row of zeros.
OneHot(y, V) ==
    IF IsErr(y) THEN ShapeError
    ELSE Tensor(y.shape \o << V >>,
                [e \in 1..(Len(y.data) * V) |->
                    IF y.data[((e - 1) \div V) + 1] = (e - 1) % V THEN 1 ELSE 0])

\* tf.cast(A, tf.float32) of an integer tensor.
CastInt(A) ==
    IF IsErr(A) THEN ShapeError
    ELSE Tensor(A.shape, [e \in 1..Len(A.data) |-> A.data[e] * Scale])

\* tf.cast(A, tf.float32) of a boolean tensor.
CastBool(A) ==
    IF IsErr(A) THEN ShapeError
    ELSE Tensor(A.shape, [e \in 1..Len(A.data) |-> IF A.data[e] THEN Scale ELSE 0])

\* log-softmax of a row: x[j] - max - ln(sum of e^(x - max)).
LogSoftmaxRow(row) ==
    LET w == RowExp(row)
    IN  Stored([j \in 1..Len(row) |-> row[j] - MaxTo(row, Len(row)) - Ln(SumTo(w, Len(w)))])

\* tf.nn.softmax_cross_entropy_with_logits(logits, labels): per row,
\* minus the sum of labels * log-softmax(logits).
SoftmaxXent(logits, labels) ==
    IF IsErr(logits) \/ IsErr(labels) THEN ShapeError
    ELSE IF Rank(logits) # 2 \/ logits.shape # labels.shape THEN ShapeError
    ELSE LET n == logits.shape[1]
             v == logits.shape[2]
         IN  Tensor(<< n >>,
                    [i \in 1..n |->
                        LET ls == LogSoftmaxRow(Row(logits, i))
                        IN  - SumTo([j \in 1..v |-> FMul(At2(labels, i, j), ls[j])], v)])

\* tf.nn.dropout(A, keep_prob) given the random draw keep (element e is kept
\* iff keep[e]): kept elements are scaled by 1 / keep_prob, the others zeroed.
Dropout(A, keep_prob, keep) ==
    IF IsErr(A) THEN ShapeError
    ELSE Tensor(A.shape,
                [e \in 1..Len(A.data) |->
                    IF keep[e] THEN RDiv(A.data[e] * Scale, keep_prob) ELSE 0])

(***************************************************************************)
(* The layers                                                              *)
(***************************************************************************)

\* tf.nn.dropout(h, 0.5): the keep probability, in fixed point.
KeepProb == 500

affine_forward(X, W, b) == Add(MatMul(X, W), b)

affine_sigmoid_forward(X, W, b) == Map("sigmoid", affine_forward(X, W, b))

affine_relu_forward(X, W, b) == Map("relu", affine_forward(X, W, b))

affine_tanh_forward(X, W, b) == Map("tanh", affine_forward(X, W, b))

\* init_lstm with the dropout applied whatever use_dropout says.
init_lstm_always_dropout(X, W1, b1, W2, b2, use_dropout, keep) ==
    LET h  == affine_relu_forward(X, W1, b1)
        hd == Dropout(h, KeepProb, keep)
    IN  affine_tanh_forward(hd, W2, b2)

\* keep is the random draw of tf.nn.dropout, read only when use_dropout.
init_lstm(X, W1, b1, W2, b2, use_dropout, keep) ==
    LET h  == affine_relu_forward(X, W1, b1)
        hd == IF use_dropout THEN Dropout(h, KeepProb, keep) ELSE h
    IN  affine_tanh_forward(hd, W2, b2)

word_embedding_forward(X, W_embed) == EmbeddingLookup(W_embed, X)

project_feature(X, W) ==
    LET L   == X.shape[2]
        D   == X.shape[3]
        Xf  == Reshape(X, << -1, D >>)
        out == MatMul(Xf, W)
    IN  Reshape(out, << -1, L, D >>)

\* attention_forward with the softmax taken before the scores are reshaped
\* to (N, L), that is over the single column of the (N x L, 1) scores.
attention_forward_softmax_flat(X, X_proj, prev_h, W_proj_h, b_proj, W_att) ==
    LET L            == X.shape[2]
        D            == X.shape[3]
        h_proj       == ExpandDims(MatMul(prev_h, W_proj_h), 1)
        hidden       == Map("relu", Add(Add(X_proj, h_proj), b_proj))
        hidden_flat  == Reshape(hidden, << -1, D >>)
        out          == MatMul(hidden_flat, W_att)
        alpha        == Reshape(Softmax(out), << -1, L >>)
        alpha_expand == ExpandDims(alpha, 2)
        context      == ReduceSum(Mul(X, alpha_expand), 1)
    IN  << context, alpha >>

\* Returns << context, alpha >>.
attention_forward(X, X_proj, prev_h, W_proj_h, b_proj, W_att) ==
    LET L            == X.shape[2]
        D            == X.shape[3]
        h_proj       == ExpandDims(MatMul(prev_h, W_proj_h), 1)
        hidden       == Map("relu", Add(Add(X_proj, h_proj), b_proj))
        hidden_flat  == Reshape(hidden, << -1, D >>)
        out          == Reshape(MatMul(hidden_flat, W_att), << -1, L >>)
        alpha        == Softmax(out)
        alpha_expand == ExpandDims(alpha, 2)
        context      == ReduceSum(Mul(X, alpha_expand), 1)
    IN  << context, alpha >>

rnn_step_forward(X, prev_h, context, Wx, Wh, Wz, b) ==
    Add(Map("tanh", Add(Add(MatMul(X, Wx), MatMul(prev_h, Wh)), MatMul(context, Wz))), b)

\* Returns << h, c >>.
lstm_step_forward(X, prev_h, prev_c, context, Wx, Wh, Wz, b) ==
    LET a  == Add(Add(Add(MatMul(X, Wx), MatMul(prev_h, Wh)), MatMul(context, Wz)), b)
        sp == Split4(a)
        i  == Map("sigmoid", sp[1])
        f  == Map("sigmoid", sp[2])
        o  == Map("sigmoid", sp[3])
        g  == Map("tanh", sp[4])
        c  == Add(Mul(f, prev_c), Mul(i, g))
        h  == Mul(o, Map("tanh", c))
    IN  << h, c >>

\* softmax_loss with the mask left out of the sum.
softmax_loss_unmasked(X, y, mask) ==
    LET V        == X.shape[2]
        y_onehot == CastInt(OneHot(y, V))
        loss     == SoftmaxXent(X, y_onehot)
    IN  ReduceSumAll(loss)

softmax_loss(X, y, mask) ==
    LET V        == X.shape[2]
        y_onehot == CastInt(OneHot(y, V))
        loss     == Mul(SoftmaxXent(X, y_onehot), CastBool(mask))
    IN  ReduceSumAll(loss)

(***************************************************************************)
(* Callers' inputs                                                         *)
(***************************************************************************)

\* Largest batch size N a caller passes.
MaxN == 2

\* Most random draws (dropout ops) followed in one behaviour.
MaxDraws == 2

\* Most layer calls followed in one behaviour.
MaxCalls == 3

\* The float32 values input tensors are filled with:
\* 0, 1, -1, 2, 0.5, -0.5, 3.
PatVals == << 0, 1000, -1000, 2000, 500, -500, 3000 >>

\* The k-th input tensor of a shape: its entries run through PatVals.
Pat(shape, k) ==
    Tensor(shape,
           [e \in 1..NumElems(shape) |-> PatVals[((e * e * k + e + k) % Len(PatVals)) + 1]])

\* The k-th index tensor of a shape, indices in [0, V).
PatIdx(shape, k, V) ==
    Tensor(shape, [e \in 1..NumElems(shape) |-> (e * k + k) % V])

\* The k-th boolean tensor of a shape.
PatBool(shape, k) ==
    Tensor(shape, [e \in 1..NumElems(shape) |-> (e + k) % 2 = 0])

Seeds == {1, 2}

\* The batch size N of the calls whose results are compared pairwise.
BatchSizes == {MaxN}

\* The batch sizes N of single calls: the empty batch too.
BatchSizesFromEmpty == 0..MaxN

\* Every outcome of one random draw over n elements.
KeepDraws(n) == [1..n -> BOOLEAN]

NoCall == [fn |-> "none", args |-> << >>, ret |-> << >>]

ThisCall == [fn |-> fn, args |-> args, ret |-> ret]

\* init_lstm given an X whose width (2) is not the height (1) of W1.
InitLstmMismatchedArgs(ns, ks) ==
    { [X |-> Pat(<< n, 2 >>, k), W1 |-> Pat(<< 1, 1 >>, k + 1), b1 |-> Pat(<< 1 >>, k + 2),
       W2 |-> Pat(<< 1, 1 >>, k + 3), b2 |-> Pat(<< 1 >>, k),
       use_dropout |-> u] : n \in ns, k \in ks, u \in BOOLEAN }

InitLstmArgs(ns, ks, D, H) ==
    { [X |-> Pat(<< n, D >>, k), W1 |-> Pat(<< D, H >>, k + 1), b1 |-> Pat(<< H >>, k + 2),
       W2 |-> Pat(<< D, H >>, k + 3), b2 |-> Pat(<< H >>, k),
       use_dropout |-> u] : n \in ns, k \in ks, u \in BOOLEAN }

WordEmbeddingArgs(ns, ks) ==
    { [X |-> PatIdx(<< n, 2 >>, k, 3), W_embed |-> Pat(<< 3, 2 >>, k)] : n \in ns, k \in ks }
    \cup { [X |-> PatIdx(<< n >>, k, 3), W_embed |-> Pat(<< 3, 2 >>, k)] : n \in ns, k \in ks }

ProjectFeatureArgs(ns, ks, L, D) ==
    { [X |-> Pat(<< n, L, D >>, k), W |-> Pat(<< D, D >>, k + 1)] : n \in ns, k \in ks }

AttentionArgs(ns, ks, L, D, H) ==
    { [X |-> Pat(<< n, L, D >>, k), X_proj |-> Pat(<< n, L, D >>, k + 1),
       prev_h |-> Pat(<< n, H >>, k + 2), W_proj_h |-> Pat(<< H, D >>, k + 3),
       b_proj |-> Pat(<< D >>, k), W_att |-> Pat(<< D, 1 >>, k + 1)] : n \in ns, k \in ks }

RnnStepArgs(ns, ks) ==
    { [X |-> Pat(<< n, 2 >>, k), prev_h |-> Pat(<< n, 2 >>, k + 1),
       context |-> Pat(<< n, 3 >>, k + 2), Wx |-> Pat(<< 2, 2 >>, k + 3),
       Wh |-> Pat(<< 2, 2 >>, k), Wz |-> Pat(<< 3, 2 >>, k + 1),
       b |-> Pat(<< 2 >>, k + 2)] : n \in ns, k \in ks }

LstmStepArgs(ns, ks) ==
    { [X |-> Pat(<< n, 2 >>, k), prev_h |-> Pat(<< n, 2 >>, k + 1),
       prev_c |-> Pat(<< n, 2 >>, k + 2), context |-> Pat(<< n, 3 >>, k + 3),
       Wx |-> Pat(<< 2, 8 >>, k), Wh |-> Pat(<< 2, 8 >>, k + 1),
       Wz |-> Pat(<< 3, 8 >>, k + 2), b |-> Pat(<< 8 >>, k + 3)] : n \in ns, k \in ks }

AffineArgs(ns, ks) ==
    { [X |-> Pat(<< n, 2 >>, k), W |-> Pat(<< 2, 3 >>, k + 1), b |-> Pat(<< 3 >>, k + 2)] :
        n \in ns, k \in ks }

SoftmaxLossArgs(ns, ks) ==
    { [X |-> Pat(<< n, 3 >>, k), y |-> PatIdx(<< n >>, k, 3), mask |-> PatBool(<< n >>, k)] :
        n \in ns, k \in ks }

(***************************************************************************)
(* The caller: one action per layer function.  fn, args and ret are the    *)
(* last call, its arguments and what it returned.  rng and graph are the   *)
(* state of the tensor library that outlives a call: rng counts the random *)
(* ops drawn so far, graph the layer calls that left ops in the library's  *)
(* default graph (every library call a layer makes appends the op it       *)
(* builds).  pinned is an earlier call kept for comparison with later      *)
(* ones.  A call is followed only while fewer than MaxCalls were made.     *)
(***************************************************************************)

Init ==
    /\ fn = "none"
    /\ args = << >>
    /\ ret = << >>
    /\ rng = 0
    /\ graph = 0
    /\ pinned = NoCall

\* What pinned may be after a call: what it was, or the call that one
\* supersedes.
Pin == {pinned, ThisCall}

\* The default graph after a layer call: an accepted call has appended its
\* ops; a rejected one leaves behind the ops built before the rejected one,
\* if there were any.
GraphAfter(rejected) == IF rejected THEN {graph, graph + 1} ELSE {graph + 1}

\* The random ops one call of init_lstm draws: tf.nn.dropout, when asked for
\* and reached, that is when the first affine layer did not raise.
init_lstm_draws(X, W1, b1, use_dropout) ==
    IF use_dropout /\ ~IsErr(affine_relu_forward(X, W1, b1)) THEN 1 ELSE 0

\* The number of elements of the hidden layer h the dropout would mask.
init_lstm_hidden(X, W1, b1) ==
    LET h == affine_relu_forward(X, W1, b1) IN IF IsErr(h) THEN 0 ELSE Len(h.data)

\* keep is what the random generator would yield for h at this call;
\* init_lstm reads it only when it builds the dropout.  A call that draws is
\* followed only while fewer than MaxDraws draws were made.
InitLstm(pool) ==
    \E a \in pool :
        \E keep \in KeepDraws(init_lstm_hidden(a.X, a.W1, a.b1)) :
            LET r == init_lstm(a.X, a.W1, a.b1, a.W2, a.b2, a.use_dropout, keep)
            IN  /\ graph < MaxCalls
                /\ rng + init_lstm_draws(a.X, a.W1, a.b1, a.use_dropout) <= MaxDraws
                /\ fn' = "init_lstm"
                /\ args' = a
                /\ ret' = r
                /\ rng' = rng + init_lstm_draws(a.X, a.W1, a.b1, a.use_dropout)
                /\ graph' \in GraphAfter(IsErr(r))
                /\ pinned' \in Pin

WordEmbeddingForward(pool) ==
    \E a \in pool :
        LET r == word_embedding_forward(a.X, a.W_embed)
        IN  /\ graph < MaxCalls
            /\ fn' = "word_embedding_forward"
            /\ args' = a
            /\ ret' = r
            /\ rng' = rng
            /\ graph' \in GraphAfter(IsErr(r))
            /\ pinned' \in Pin

ProjectFeature(pool) ==
    \E a \in pool :
        LET r == project_feature(a.X, a.W)
        IN  /\ graph < MaxCalls
            /\ fn' = "project_feature"
            /\ args' = a
            /\ ret' = r
            /\ rng' = rng
            /\ graph' \in GraphAfter(IsErr(r))
            /\ pinned' \in Pin

AttentionForward(pool) ==
    \E a \in pool :
        LET r == attention_forward(a.X, a.X_proj, a.prev_h, a.W_proj_h, a.b_proj, a.W_att)
        IN  /\ graph < MaxCalls
            /\ fn' = "attention_forward"
            /\ args' = a
            /\ ret' = r
            /\ rng' = rng
            /\ graph' \in GraphAfter(IsErr(r[1]) \/ IsErr(r[2]))
            /\ pinned' \in Pin

RnnStepForward(pool) ==
    \E a \in pool :
        LET r == rnn_step_forward(a.X, a.prev_h, a.context, a.Wx, a.Wh, a.Wz, a.b)
        IN  /\ graph < MaxCalls
            /\ fn' = "rnn_step_forward"
            /\ args' = a
            /\ ret' = r
            /\ rng' = rng
            /\ graph' \in GraphAfter(IsErr(r))
            /\ pinned' \in Pin

LstmStepForward(pool) ==
    \E a \in pool :
        LET r == lstm_step_forward(a.X, a.prev_h, a.prev_c, a.context, a.Wx, a.Wh, a.Wz, a.b)
        IN  /\ graph < MaxCalls
            /\ fn' = "lstm_step_forward"
            /\ args' = a
            /\ ret' = r
            /\ rng' = rng
            /\ graph' \in GraphAfter(IsErr(r[1]) \/ IsErr(r[2]))
            /\ pinned' \in Pin

AffineForward(pool) ==
    \E a \in pool :
        LET r == affine_forward(a.X, a.W, a.b)
        IN  /\ graph < MaxCalls
            /\ fn' = "affine_forward"
            /\ args' = a
            /\ ret' = r
            /\ rng' = rng
            /\ graph' \in GraphAfter(IsErr(r))
            /\ pinned' \in Pin

AffineSigmoidForward(pool) ==
    \E a \in pool :
        LET r == affine_sigmoid_forward(a.X, a.W, a.b)
        IN  /\ graph < MaxCalls
            /\ fn' = "affine_sigmoid_forward"
            /\ args' = a
            /\ ret' = r
            /\ rng' = rng
            /\ graph' \in GraphAfter(IsErr(r))
            /\ pinned' \in Pin

AffineReluForward(pool) ==
    \E a \in pool :
        LET r == affine_relu_forward(a.X, a.W, a.b)
        IN  /\ graph < MaxCalls
            /\ fn' = "affine_relu_forward"
            /\ args' = a
            /\ ret' = r
            /\ rng' = rng
            /\ graph' \in GraphAfter(IsErr(r))
            /\ pinned' \in Pin

AffineTanhForward(pool) ==
    \E a \in pool :
        LET r == affine_tanh_forward(a.X, a.W, a.b)
        IN  /\ graph < MaxCalls
            /\ fn' = "affine_tanh_forward"
            /\ args' = a
            /\ ret' = r
            /\ rng' = rng
            /\ graph' \in GraphAfter(IsErr(r))
            /\ pinned' \in Pin

SoftmaxLoss(pool) ==
    \E a \in pool :
        LET r == softmax_loss(a.X, a.y, a.mask)
        IN  /\ graph < MaxCalls
            /\ fn' = "softmax_loss"
            /\ args' = a
            /\ ret' = r
            /\ rng' = rng
            /\ graph' \in GraphAfter(IsErr(r))
            /\ pinned' \in Pin

\* The input tensors of the calls Spec follows.
CallSeeds == {4}

Next ==
    \/ InitLstm(InitLstmArgs(BatchSizes, CallSeeds, 1, 1)
                   \cup InitLstmMismatchedArgs(BatchSizes, CallSeeds))
    \/ WordEmbeddingForward(WordEmbeddingArgs(BatchSizes, CallSeeds))
    \/ ProjectFeature(ProjectFeatureArgs(BatchSizes, CallSeeds, 3, 2))
    \/ AttentionForward(AttentionArgs(BatchSizes, CallSeeds, 3, 2, 2))
    \/ RnnStepForward(RnnStepArgs(BatchSizes, CallSeeds))
    \/ LstmStepForward(LstmStepArgs(BatchSizes, CallSeeds))
    \/ AffineForward(AffineArgs(BatchSizes, CallSeeds))
    \/ AffineSigmoidForward(AffineArgs(BatchSizes, CallSeeds))
    \/ AffineReluForward(AffineArgs(BatchSizes, CallSeeds))
    \/ AffineTanhForward(AffineArgs(BatchSizes, CallSeeds))
    \/ SoftmaxLoss(SoftmaxLossArgs(BatchSizes, CallSeeds))

Spec == Init /\ [][Next]_vars

(***************************************************************************)
(* C1: statelessness of the layers                                         *)
(***************************************************************************)

\* The call c is init_lstm with use_dropout=True.
IsDropoutCall(c) == c.fn = "init_lstm" /\ c.args.use_dropout

\* The last call repeats the pinned one: same function, equal arguments.
RepeatsPinned == pinned.fn = fn /\ pinned.args = args

\* The call c raised: what it returned, or one of the two tensors it
\* returned, is the outcome of a rejected operation.
Rejected(c) ==
    IF c.fn \in {"attention_forward", "lstm_step_forward"}
    THEN IsErr(c.ret[1]) \/ IsErr(c.ret[2])
    ELSE IsErr(c.ret)

\* The first affine layer of init_lstm raised on the arguments a.
FirstLayerRejected(a) == IsErr(affine_relu_forward(a.X, a.W1, a.b1))

DocDims == {1, 2, 3}

\* One call of init_lstm on arguments of the documented shapes: X (N, D),
\* W1 (D, H), b1 (H,), W2 (D, H), b2 (H,).
InitLstmDocumented ==
    /\ fn = "none"
    /\ InitLstm(UNION { InitLstmArgs(BatchSizesFromEmpty, Seeds, D, H) : D \in DocDims, H \in DocDims })
    /\ pinned' = pinned

SpecInit == Init /\ [][InitLstmDocumented]_vars

\* C3: init_lstm accepts the documented shapes for every D and H and returns
\* an output of shape (N, H).
C3_DocumentedShapesAccepted ==
    fn = "init_lstm" => ret.shape = << args.X.shape[1], args.b2.shape[1] >>

(***************************************************************************)
(* C2: the masked softmax loss                                             *)
(***************************************************************************)

\* Largest number of rows N of a batch given to the loss.
MaxRows == 3

\* Vocabulary sizes V, and the examples (a row of V scores and its label) a
\* caller's batch is made of.
LossVocab == {2, 3}

LossExamples(V) == { [scores |-> Pat(<< V >>, k).data, label |-> k % V] : k \in {1, 2, 3} }

\* The (N, V) matrix whose rows are rows[1..N].
FromRows(rows, V) ==
    Tensor(<< Len(rows), V >>,
           [e \in 1..(Len(rows) * V) |-> rows[((e - 1) \div V) + 1][((e - 1) % V) + 1]])

LossArgs ==
    UNION { { [X    |-> FromRows([i \in 1..n |-> ex[i].scores], V),
               y    |-> Tensor(<< n >>, [i \in 1..n |-> ex[i].label]),
               mask |-> Tensor(<< n >>, m)] :
                ex \in [1..n -> LossExamples(V)], m \in [1..n -> BOOLEAN] } :
            n \in 0..MaxRows, V \in LossVocab }

\* The batch a with one row replaced by another example.
RowChanges(a) ==
    LET n == a.X.shape[1]
        V == a.X.shape[2]
    IN  { [a EXCEPT !.X = FromRows([j \in 1..n |-> IF j = i THEN ex.scores ELSE Row(a.X, j)], V),
                    !.y = Tensor(<< n >>, [j \in 1..n |-> IF j = i THEN ex.label
                                                          ELSE a.y.data[j]])] :
            i \in 1..n, ex \in LossExamples(V) } \ {a}

\* The batch a with one row's mask bit flipped.
MaskChanges(a) ==
    LET n == a.X.shape[1]
    IN  { [a EXCEPT !.mask = Tensor(<< n >>, [j \in 1..n |-> IF j = i THEN ~a.mask.data[j]
                                                            ELSE a.mask.data[j]])] :
            i \in 1..n }

\* The first batch's loss.
LossFirstCall ==
    /\ fn = "none"
    /\ SoftmaxLoss(LossArgs)
    /\ pinned' = pinned

\* The second call: the loss of the batch after one row's scores and label
\* changed; pinned keeps the call before the change.
LossRowChanged ==
    /\ fn = "softmax_loss"
    /\ pinned = NoCall
    /\ SoftmaxLoss(RowChanges(args))
    /\ pinned' = ThisCall

\* The second call: the loss of the batch after one row's mask bit flipped.
LossMaskChanged ==
    /\ fn = "softmax_loss"
    /\ pinned = NoCall
    /\ SoftmaxLoss(MaskChanges(args))
    /\ pinned' = ThisCall

NextLoss == LossFirstCall \/ LossRowChanged \/ LossMaskChanged

SpecLoss == Init /\ [][NextLoss]_vars

\* Softmax cross-entropy of one row of scores against a label (0-based):
\* ln(sum of e^x[j]) - x[label], taken relative to the row's maximum.
RowXent(row, label) ==
    LET mx == MaxTo(row, Len(row))
    IN  Ln(SumTo([j \in 1..Len(row) |-> ExpNeg(row[j] - mx)], Len(row)))
        - (row[label + 1] - mx)

RECURSIVE SumOver(_, _)
\* The sum of f[i] over the i in S.
SumOver(S, f) ==
    IF S = {} THEN 0
    ELSE LET i == CHOOSE x \in S : TRUE IN f[i] + SumOver(S \ {i}, f)

\* The rows of the batch a that the mask lets contribute.
Contributing(a) == { i \in 1..a.X.shape[1] : a.mask.data[i] }

\* Batches a and b are the same on every contributing row and have the same
\* mask: they differ, if at all, in masked-out rows only.
SameContributingRows(a, b) ==
    /\ a.X.shape = b.X.shape
    /\ a.mask = b.mask
    /\ \A i \in Contributing(a) : Row(a.X, i) = Row(b.X, i) /\ a.y.data[i] = b.y.data[i]

\* C2: softmax_loss returns one scalar, the sum over exactly the rows with
\* mask true of the softmax cross-entropy of X[i] against y[i], undivided; a
\* call whose batch differs from the previous call's only in masked-out rows
\* returns the same loss.
C2_MaskedSum ==
    fn = "softmax_loss" =>
        /\ ret.shape = << >>
        /\ ret.data = << SumOver(Contributing(args),
                                 [i \in 1..args.X.shape[1] |->
                                     RowXent(Row(args.X, i), args.y.data[i])]) >>
        /\ (pinned.fn = "softmax_loss" /\ SameContributingRows(pinned.args, args))
               => pinned.ret = ret

\* A batch with at least two contributing rows and a masked-out row, called
\* again after the masked-out row's scores or label changed.
C2_Witness ==
    /\ fn = "softmax_loss"
    /\ pinned.fn = "softmax_loss"
    /\ pinned.args # args
    /\ SameContributingRows(pinned.args, args)
    /\ Cardinality(Contributing(args)) >= 2
    /\ ret.data[1] > 0

(***************************************************************************)
(* C4: soft attention                                                      *)
(***************************************************************************)

\* Numbers of locations L, feature sizes D and hidden sizes H.
AttnDims == { << L, D, H >> : L \in 2..4, D \in 1..3, H \in 1..2 }

AttnSeeds == 1..4

\* One call of attention_forward.
AttentionCall ==
    /\ fn = "none"
    /\ AttentionForward(UNION { AttentionArgs(BatchSizesFromEmpty, AttnSeeds, d[1], d[2], d[3]) :
                                  d \in AttnDims })
    /\ pinned' = pinned

SpecAttn == Init /\ [][AttentionCall]_vars

RECURSIVE MinTo(_, _)
MinTo(f, n) == IF n = 1 THEN f[1] ELSE LET m == MinTo(f, n - 1) IN IF f[n] <= m THEN f[n] ELSE m

\* What the roundings of L weights and L products can add up to, in units of
\* 1 / Scale, for features of magnitude at most maxabs.
RoundTol(L, maxabs) == L + (L * maxabs) \div Scale

\* C4: attention_forward returns alpha of shape (N, L) and context of shape
\* (N, D); each alpha[n, :] is a probability distribution over the L locations
\* (entries >= 0 that sum to 1, up to rounding); context[n, d] is the sum over
\* l of alpha[n, l] * X[n, l, d], which lies between the least and the greatest
\* of the X[n, l, d] (up to rounding).
C4_AttentionConvex ==
    fn = "attention_forward" =>
        LET X       == args.X
            N       == X.shape[1]
            L       == X.shape[2]
            D       == X.shape[3]
            context == ret[1]
            alpha   == ret[2]
        IN  /\ alpha.shape = << N, L >>
            /\ context.shape = << N, D >>
            /\ \A n \in 1..N :
                   /\ \A l \in 1..L : At2(alpha, n, l) >= 0
                   /\ Abs(SumTo([l \in 1..L |-> At2(alpha, n, l)], L) - Scale) <= L
                   /\ \A d \in 1..D :
                          LET xs  == [l \in 1..L |-> At3(X, n, l, d)]
                              tol == RoundTol(L, MaxTo([l \in 1..L |-> Abs(xs[l])], L))
                          IN  /\ At2(context, n, d)
                                     = SumTo([l \in 1..L |-> FMul(xs[l], At2(alpha, n, l))], L)
                              /\ At2(context, n, d) >= MinTo(xs, L) - tol
                              /\ At2(context, n, d) <= MaxTo(xs, L) + tol

\* A batch of at least two elements over at least three locations where one
\* element's weights are spread unevenly over several locations and a context
\* entry falls strictly inside the range of its features.
C4_Witness ==
    /\ fn = "attention_forward"
    /\ args.X.shape[1] >= 2
    /\ args.X.shape[2] >= 3
    /\ \E n \in 1..args.X.shape[1] :
           /\ \E l1, l2 \in 1..args.X.shape[2] :
                  /\ At2(ret[2], n, l1) > 0
                  /\ At2(ret[2], n, l2) > At2(ret[2], n, l1)
           /\ \E d \in 1..args.X.shape[3] :
                  LET xs == [l \in 1..args.X.shape[2] |-> At3(args.X, n, l, d)]
                  IN  /\ At2(ret[1], n, d) > MinTo(xs, args.X.shape[2])
                      /\ At2(ret[1], n, d) < MaxTo(xs, args.X.shape[2])

====
